---- MODULE Spec2Model ----
(***************************************************************************)
(* Model of the segmented-recording control loop of mic_recorder.py: the   *)
(* device selector, the disk space guard, the chunked segment recorder     *)
(* (record_segment) and the supervisor main loop (record_audio), together  *)
(* with the asynchronous signal handler that clears keep_recording.        *)
(***************************************************************************)
EXTENDS Integers, Sequences, FiniteSets, TLC

(* ---------------- program constants (mic_recorder.py) ------------------ *)
RATE == 44100
CHANNELS == 1
MIN_FREE_DISK_SPACE_MB == 200
MAX_CONSECUTIVE_SEGMENT_FAILURES == 5
BYTES_PER_SAMPLE == 2
\* 1024 * 1024, the divisor of get_free_disk_space_mb and of the estimate
MiB == 1024 * 1024
\* PREFERRED_DEVICE_NAME_SUBSTRING = "" : a string is a sequence of characters
PREFERRED_DEVICE_NAME_SUBSTRING == <<>>
\* Python's None for current_device_id and for a function's return value
None == -1

(* ---------------- bounds of the model ---------------------------------- *)
\* record_segment is explored for total durations 1..MaxDuration seconds
MaxDuration == 12
\* and chunk durations 1..MaxChunkDuration seconds
MaxChunkDuration == 5
\* the supervisor is explored for segment durations 1..MaxSupDuration seconds
MaxSupDuration == 2
\* and chunk durations 1..MaxSupChunkDuration seconds
MaxSupChunkDuration == 2
\* host device lists of at most MaxDevices devices (selector)
MaxDevices == 3
\* host device lists of at most MaxSupDevices devices (supervisor)
MaxSupDevices == 1
\* free-space values: MaxFreeSteps quarter-MiB steps upward from 199 MiB
MaxFreeSteps == 12
\* the length of a run of consecutive failures is counted up to MaxRun
MaxRun == 11
\* arecord variant: capture subprocesses started in one run
MaxAlsaSegments == 3

(* ---------------- strings ---------------------------------------------- *)
\* str.lower() on one character
LowerChar(c) ==
    CASE c = "U" -> "u"
      [] c = "S" -> "s"
      [] c = "B" -> "b"
      [] c = "H" -> "h"
      [] c = "D" -> "d"
      [] OTHER -> c

\* str.lower()
Lower(s) == [k \in 1..Len(s) |-> LowerChar(s[k])]

\* Python's  sub in s  for strings
Contains(sub, s) ==
    \E off \in 0..(Len(s) - Len(sub)) :
        \A k \in 1..Len(sub) : s[off + k] = sub[k]

\* the device name the host reports to the supervisor (its preferred
\* substring is empty, so names do not matter there)
SupDeviceNames == { <<"h", "d">> }

\* the numbers of input channels a device may report (max_input_channels)
ChannelValues == { 0, 1, 2 }

\* device names the host may report
DeviceNames == { <<"U", "S", "B">>, <<"u", "s", "b", "x">>, <<"h", "d">> }

\* values of the configured preferred substring
PreferredValues == { <<>>, <<"u", "s", "b">>, <<"H", "D">>, <<"z">> }

(* ---------------- device catalog and selector -------------------------- *)
\* raw devices as sd.query_devices() reports them, named from a set of names
RawDevices(names) == [name : names, max_input_channels : ChannelValues]

\* sequences over S of length 0..n
SeqUpTo(S, n) == UNION { [1..m -> S] : m \in 0..n }

\* outcomes of sd.query_devices(): it raises (ok = FALSE) or returns a list
DeviceQueries(names, n) ==
    { [ok |-> FALSE, devices |-> <<>>] }
      \cup { [ok |-> TRUE, devices |-> ds] : ds \in SeqUpTo(RawDevices(names), n) }

\* outcomes of sd.query_devices(kind='input'): it raises (ok = FALSE) or
\* returns the default device's info
DefaultQueries(n) ==
    { [ok |-> FALSE, index |-> 0, max_input_channels |-> 0] }
      \cup [ok : {TRUE}, index : 0..(n - 1), max_input_channels : ChannelValues]

RECURSIVE InputDevicesFrom(_, _)
\* the loop of list_audio_devices_detailed from raw index k (1-based) on:
\* keeps the devices with input channels, id = the 0-based raw index
InputDevicesFrom(devices, k) ==
    IF k > Len(devices) THEN <<>>
    ELSE IF devices[k].max_input_channels > 0
         THEN << [id |-> k - 1, name |-> devices[k].name,
                  channels |-> devices[k].max_input_channels] >>
                \o InputDevicesFrom(devices, k + 1)
         ELSE InputDevicesFrom(devices, k + 1)

\* list_audio_devices_detailed: [] when the query raises
list_audio_devices_detailed(query) ==
    IF ~query.ok THEN <<>> ELSE InputDevicesFrom(query.devices, 1)

\* step 1 of find_best_input_device: catalog positions matching the substring
PreferredMatches(all_input_devices, preferred) ==
    { k \in 1..Len(all_input_devices) :
        Contains(Lower(preferred), Lower(all_input_devices[k].name)) }

\* the smallest element of a non-empty set of integers
Min(S) == CHOOSE m \in S : \A x \in S : m <= x

\* step 2 of find_best_input_device: the default query did not raise and the
\* default device has input channels
DefaultUsable(default) == default.ok /\ default.max_input_channels > 0

\* find_best_input_device with the default query's exception escaping to the
\* outer handler (which returns None)
find_best_input_device_default_escapes(query, preferred, default) ==
    LET all_input_devices == list_audio_devices_detailed(query) IN
    IF Len(all_input_devices) = 0 THEN None
    ELSE IF preferred # <<>> /\ PreferredMatches(all_input_devices, preferred) # {}
         THEN all_input_devices[Min(PreferredMatches(all_input_devices, preferred))].id
         ELSE IF ~default.ok THEN None
              ELSE IF default.max_input_channels > 0 THEN default.index
                   ELSE all_input_devices[1].id

\* find_best_input_device trying the default device before the preferred name
find_best_input_device_default_first(query, preferred, default) ==
    LET all_input_devices == list_audio_devices_detailed(query) IN
    IF Len(all_input_devices) = 0 THEN None
    ELSE IF DefaultUsable(default) THEN default.index
         ELSE IF preferred # <<>> /\ PreferredMatches(all_input_devices, preferred) # {}
              THEN all_input_devices[Min(PreferredMatches(all_input_devices, preferred))].id
              ELSE all_input_devices[1].id

\* find_best_input_device without step 2 (the default device is never used)
find_best_input_device_no_default(query, preferred, default) ==
    LET all_input_devices == list_audio_devices_detailed(query) IN
    IF Len(all_input_devices) = 0 THEN None
    ELSE IF preferred # <<>> /\ PreferredMatches(all_input_devices, preferred) # {}
         THEN all_input_devices[Min(PreferredMatches(all_input_devices, preferred))].id
         ELSE all_input_devices[1].id

\* find_best_input_device without the input-channel test of line 182
find_best_input_device_unchecked_default(query, preferred, default) ==
    LET all_input_devices == list_audio_devices_detailed(query) IN
    IF Len(all_input_devices) = 0 THEN None
    ELSE IF preferred # <<>> /\ PreferredMatches(all_input_devices, preferred) # {}
         THEN all_input_devices[Min(PreferredMatches(all_input_devices, preferred))].id
         ELSE IF default.ok THEN default.index
              ELSE all_input_devices[1].id

\* find_best_input_device: the value returned (and stored in current_device_id)
find_best_input_device(query, preferred, default) ==
    LET all_input_devices == list_audio_devices_detailed(query) IN
    IF Len(all_input_devices) = 0 THEN None
    ELSE IF preferred # <<>> /\ PreferredMatches(all_input_devices, preferred) # {}
         THEN all_input_devices[Min(PreferredMatches(all_input_devices, preferred))].id
         ELSE IF DefaultUsable(default) THEN default.index
              ELSE all_input_devices[1].id

(* ---------------- disk space guard ------------------------------------- *)
\* outcomes of shutil.disk_usage: it raises (ok = FALSE) or reports free bytes
FreeValues ==
    { 0, 150 * MiB }
      \cup { (MIN_FREE_DISK_SPACE_MB - 1) * MiB + s * (MiB \div 4) : s \in 0..MaxFreeSteps }

DiskQueries ==
    { [ok |-> FALSE, free |-> 0] } \cup [ok : {TRUE}, free : FreeValues]

\* get_free_disk_space_mb: whole MiB (floor division), None when the query raises
get_free_disk_space_mb(query) ==
    IF query.ok THEN query.free \div MiB ELSE None

\* duration * rate * channels * bytes_per_sample, in bytes
EstimatedSegmentBytes(segment_duration) ==
    segment_duration * RATE * CHANNELS * BYTES_PER_SAMPLE

\* the guard comparing the free bytes themselves instead of whole MiB
check_disk_space_sufficient_bytes(query, segment_duration) ==
    IF ~query.ok THEN TRUE
    ELSE ~(query.free < EstimatedSegmentBytes(segment_duration)
                          + MIN_FREE_DISK_SPACE_MB * MiB)

\* check_disk_space_sufficient. The code compares
\*   free_mb < estimated_bytes / 2^20 + MIN_FREE_DISK_SPACE_MB
\* in floating point; the division by 2^20 is exact, so this is the same
\* comparison with both sides multiplied by 2^20.
check_disk_space_sufficient(query, segment_duration) ==
    LET free_mb == get_free_disk_space_mb(query) IN
    IF free_mb = None THEN TRUE
    ELSE ~(free_mb * MiB < EstimatedSegmentBytes(segment_duration)
                             + MIN_FREE_DISK_SPACE_MB * MiB)

(* ---------------- chunk arithmetic of record_segment ------------------- *)
\* num_chunks without the partial chunk of line 230
NumChunksFloor(d, c) ==
    LET n == d \div c IN
    IF n = 0 /\ d > 0 THEN 1 ELSE n

\* num_chunks as computed at lines 223-230 (durations are positive integers)
NumChunks(d, c) ==
    LET n == d \div c IN
    IF n = 0 /\ d > 0 THEN 1
    ELSE IF d % c # 0 /\ n > 0 THEN n + 1 ELSE n

\* current_chunk_duration as computed at lines 224-228
CurrentChunkDuration(d, c) ==
    IF d \div c = 0 /\ d > 0 THEN d ELSE c

\* actual_chunk_duration of chunk index idx (0-based), lines 241-245
ActualChunkDuration(idx, d, c) ==
    IF idx = NumChunks(d, c) - 1 /\ d % c # 0
    THEN (IF d % c = 0 THEN CurrentChunkDuration(d, c) ELSE d % c)
    ELSE CurrentChunkDuration(d, c)

\* chunk_frames = int(actual_chunk_duration * RATE)
ChunkFrames(idx, d, c) == ActualChunkDuration(idx, d, c) * RATE


(* ---------------- state ------------------------------------------------ *)
VARIABLES
    pc,                           \* position of the main thread
    keep_recording,               \* global flag cleared by signal_handler
    current_device_id,            \* global: the selected device id or None
    consecutive_segment_failures, \* local of record_audio
    success,                      \* value returned by the last record_segment
    segment_duration,             \* SEGMENT_DURATION_SECONDS of this run
    chunk_duration,               \* CHUNK_DURATION_SECONDS of this run
    preferred,                    \* PREFERRED_DEVICE_NAME_SUBSTRING of this run
    i,                            \* loop index of record_segment
    all_recorded_chunks,          \* chunks captured so far, in capture order
    tmpFile,                      \* the file at output_path_final + ".tmp"
    finalFile,                    \* the file at output_path_final
    cancelPoint,                  \* history: chunks captured or in capture when the flag was cleared
    rsError,                      \* history: the exception record_segment met, if any
    removeFailed,                 \* history: os.remove of the temp file raised OSError
    failRun,                      \* history: failures since the last success
    guardQuery,                   \* the free-space query given to the guard
    guardResult,                  \* what the guard returned for it
    selQuery,                     \* the device query given to the selector
    selDefault,                   \* the default-device query given to it
    selResult,                    \* what the selector returned
    pendingRediscovery,           \* history: a segment failed and discovery has not run since
    cameFrom,                     \* history: the position from which the loop head was reached
    guardChecks,                  \* history: guard checks since the last loop head
    discoveredInLoop,             \* history: this iteration found its device at line 331
    apc,                          \* arecord variant: position of the main thread
    current_process,              \* arecord variant: the global is set (not None)
    procState,                    \* arecord variant: the capture subprocess, if any
    procAsked,                    \* arecord variant: terminate() was called on it
    returncode,                   \* arecord variant: exit status of the subprocess
    alsaSegments                  \* arecord variant: history, subprocesses started

vars == << pc, keep_recording, current_device_id, consecutive_segment_failures,
           success, segment_duration, chunk_duration, preferred, i,
           all_recorded_chunks, tmpFile, finalFile, cancelPoint, rsError,
           removeFailed, failRun, guardQuery, guardResult, selQuery,
           selDefault, selResult, pendingRediscovery, cameFrom, guardChecks,
           discoveredInLoop,
           apc, current_process, procState, procAsked, returncode,
           alsaSegments >>

\* what record_audio owns besides pc and current_device_id
supVars == << consecutive_segment_failures, failRun >>
\* the history of the supervisor's discoveries, pauses and guard checks
ghostVars == << pendingRediscovery, cameFrom, guardChecks, discoveredInLoop >>
\* the state of the arecord variant (mic_recorder_alsa.py)
alsaVars == << apc, current_process, procState, procAsked, returncode, alsaSegments >>
\* the locals and files of record_segment
segVars == << i, all_recorded_chunks, tmpFile, finalFile, rsError, removeFailed >>
\* the configuration
cfgVars == << segment_duration, chunk_duration, preferred >>
\* the records of the guard's and the selector's calls
callVars == << guardQuery, guardResult, selQuery, selDefault, selResult >>

\* no file at a path
NoFile == [exists |-> FALSE, complete |-> FALSE, data |-> <<>>]
\* a file created and not (yet) fully written
PartialFile == [exists |-> TRUE, complete |-> FALSE, data |-> <<>>]
\* a file fully written and closed, holding the encoded chunks
CompleteFile(chunks) == [exists |-> TRUE, complete |-> TRUE, data |-> chunks]

\* positions inside record_segment
RsPcs == { "rs_entry", "rs_loop", "rs_rec", "rs_combine", "rs_write",
           "rs_writing", "rs_move", "rs_except" }

(* ---------------- initial states --------------------------------------- *)
\* what every specification starts from: module load (lines 59-61) and
\* nothing recorded yet
InitCommon ==
    /\ keep_recording = TRUE
    /\ consecutive_segment_failures = 0
    /\ success = FALSE
    /\ i = 0
    /\ all_recorded_chunks = <<>>
    /\ tmpFile = NoFile
    /\ finalFile = NoFile
    /\ cancelPoint = None
    /\ rsError = "none"
    /\ removeFailed = FALSE
    /\ failRun = 0
    /\ guardQuery = [ok |-> FALSE, free |-> 0]
    /\ guardResult = TRUE
    /\ pendingRediscovery = FALSE
    /\ cameFrom = "none"
    /\ guardChecks = 0
    /\ discoveredInLoop = FALSE
    /\ apc = "a_start"
    /\ current_process = FALSE
    /\ procState = "none"
    /\ procAsked = FALSE
    /\ returncode = 0
    /\ alsaSegments = 0
    /\ selQuery = [ok |-> FALSE, devices |-> <<>>]
    /\ selDefault = [ok |-> FALSE, index |-> 0, max_input_channels |-> 0]
    /\ selResult = None

\* the supervisor: record_audio is about to run
Init ==
    /\ InitCommon
    /\ pc = "start"
    /\ current_device_id = None
    /\ segment_duration \in 1..MaxSupDuration
    /\ chunk_duration \in 1..MaxSupChunkDuration
    /\ preferred = PREFERRED_DEVICE_NAME_SUBSTRING

(* ---------------- signal handler --------------------------------------- *)
\* signal_handler: keep_recording = False, at any point of the main thread
signal_handler ==
    /\ pc # "done"
    /\ keep_recording = TRUE
    /\ keep_recording' = FALSE
    /\ cancelPoint' =
         IF pc \in RsPcs \ {"rs_entry"}
         THEN Len(all_recorded_chunks) + (IF pc = "rs_rec" THEN 1 ELSE 0)
         ELSE IF pc \in {"after_segment", "rediscover", "short_sleep", "long_sleep"}
              THEN cancelPoint
              ELSE 0
    /\ UNCHANGED << pc, current_device_id, success, supVars, ghostVars, alsaVars, segVars, cfgVars, callVars >>

(* ---------------- record_segment --------------------------------------- *)
\* a return of record_segment: the locals die, the caller resumes at line 350
Return(result) ==
    /\ pc' = "after_segment"
    /\ success' = result
    /\ i' = 0
    /\ all_recorded_chunks' = <<>>

\* lines 214-233: the device test, the chunk count, the empty chunk list
RsEntry ==
    /\ pc = "rs_entry"
    /\ rsError' = "none"
    /\ removeFailed' = FALSE
    /\ IF current_device_id = None
       THEN Return(FALSE)
       ELSE /\ pc' = "rs_loop"
            /\ i' = 0
            /\ all_recorded_chunks' = <<>>
            /\ UNCHANGED success
    /\ UNCHANGED << keep_recording, current_device_id, supVars, ghostVars, alsaVars, cfgVars, callVars,
                    tmpFile, finalFile, cancelPoint >>

\* the loop head without the flag test of lines 236-238
RsLoopIgnoresFlag ==
    /\ pc = "rs_loop"
    /\ IF i >= NumChunks(segment_duration, chunk_duration)
       THEN pc' = "rs_combine" /\ i' = i
       ELSE IF ChunkFrames(i, segment_duration, chunk_duration) <= 0
            THEN pc' = "rs_loop" /\ i' = i + 1
            ELSE pc' = "rs_rec" /\ i' = i
    /\ UNCHANGED << keep_recording, current_device_id, success, supVars, ghostVars, alsaVars, cfgVars,
                    callVars, all_recorded_chunks, tmpFile, finalFile, cancelPoint,
                    rsError, removeFailed >>

\* lines 235-250: the loop head, the flag test, the chunk length
RsLoop ==
    /\ pc = "rs_loop"
    /\ IF i >= NumChunks(segment_duration, chunk_duration) \/ ~keep_recording
       THEN pc' = "rs_combine" /\ i' = i
       ELSE IF ChunkFrames(i, segment_duration, chunk_duration) <= 0
            THEN pc' = "rs_loop" /\ i' = i + 1
            ELSE pc' = "rs_rec" /\ i' = i
    /\ UNCHANGED << keep_recording, current_device_id, success, supVars, ghostVars, alsaVars, cfgVars,
                    callVars, all_recorded_chunks, tmpFile, finalFile, cancelPoint,
                    rsError, removeFailed >>

\* lines 254-262: sd.rec returned the chunk, it is appended
RsRecOk ==
    /\ pc = "rs_rec"
    /\ all_recorded_chunks' =
         Append(all_recorded_chunks,
                [index |-> i,
                 seconds |-> ActualChunkDuration(i, segment_duration, chunk_duration)])
    /\ i' = i + 1
    /\ pc' = "rs_loop"
    /\ UNCHANGED << keep_recording, current_device_id, success, supVars, ghostVars, alsaVars, cfgVars,
                    callVars, tmpFile, finalFile, cancelPoint, rsError, removeFailed >>

\* a capture error that is logged and skipped: the loop goes on with the
\* next chunk
RsRecErrorContinues ==
    /\ pc = "rs_rec"
    /\ rsError' = "capture"
    /\ i' = i + 1
    /\ pc' = "rs_loop"
    /\ UNCHANGED << keep_recording, current_device_id, success, supVars, ghostVars, alsaVars, cfgVars,
                    callVars, all_recorded_chunks, tmpFile, finalFile,
                    cancelPoint, removeFailed >>

\* a capture error that escapes record_segment and record_audio
RsRecErrorEscapes ==
    /\ pc = "rs_rec"
    /\ rsError' = "capture"
    /\ pc' = "done"
    /\ UNCHANGED << keep_recording, current_device_id, success, supVars, ghostVars, alsaVars, cfgVars,
                    callVars, i, all_recorded_chunks, tmpFile, finalFile,
                    cancelPoint, removeFailed >>

\* lines 268-273: sd.rec raised, record_segment returns False
RsRecError ==
    /\ pc = "rs_rec"
    /\ rsError' = "capture"
    /\ Return(FALSE)
    /\ UNCHANGED << keep_recording, current_device_id, supVars, ghostVars, alsaVars, cfgVars, callVars,
                    tmpFile, finalFile, cancelPoint, removeFailed >>

\* lines 278-285: no chunk was captured; a temp file, if any, is removed
RsNoChunks ==
    /\ pc = "rs_combine"
    /\ all_recorded_chunks = <<>>
    /\ \E removed \in BOOLEAN :
          /\ removed \/ tmpFile.exists
          /\ tmpFile' = (IF removed THEN NoFile ELSE tmpFile)
          /\ removeFailed' = (removeFailed \/ ~removed)
    /\ Return(FALSE)
    /\ UNCHANGED << keep_recording, current_device_id, supVars, ghostVars, alsaVars, cfgVars, callVars,
                    finalFile, cancelPoint, rsError >>

\* lines 287-296: the chunks are stacked, normalized and converted
RsCombineOk ==
    /\ pc = "rs_combine"
    /\ all_recorded_chunks # <<>>
    /\ pc' = "rs_write"
    /\ UNCHANGED << keep_recording, current_device_id, success, supVars, ghostVars, alsaVars, cfgVars,
                    callVars, segVars, cancelPoint >>

\* lines 287-296 raise (e.g. out of memory): control goes to line 306
RsCombineError ==
    /\ pc = "rs_combine"
    /\ all_recorded_chunks # <<>>
    /\ rsError' = "encode"
    /\ pc' = "rs_except"
    /\ UNCHANGED << keep_recording, current_device_id, success, supVars, ghostVars, alsaVars, cfgVars,
                    callVars, i, all_recorded_chunks, tmpFile, finalFile,
                    cancelPoint, removeFailed >>

\* a recorder that writes the encoded data to output_path_final itself
RsWriteOpenInPlace ==
    /\ pc = "rs_write"
    /\ finalFile' = PartialFile
    /\ tmpFile' = PartialFile
    /\ pc' = "rs_writing"
    /\ UNCHANGED << keep_recording, current_device_id, success, supVars, ghostVars, alsaVars, cfgVars,
                    callVars, i, all_recorded_chunks, cancelPoint, rsError,
                    removeFailed >>

\* line 298 begins: scipy's write opens the temp file, or raises before
\* any file exists
RsWriteOpen ==
    /\ pc = "rs_write"
    /\ \E opened \in BOOLEAN :
          /\ tmpFile' = (IF opened THEN PartialFile ELSE tmpFile)
          /\ pc' = (IF opened THEN "rs_writing" ELSE "rs_except")
          /\ rsError' = (IF opened THEN rsError ELSE "write")
    /\ UNCHANGED << keep_recording, current_device_id, success, supVars, ghostVars, alsaVars, cfgVars,
                    callVars, i, all_recorded_chunks, finalFile, cancelPoint,
                    removeFailed >>

\* line 298 ends: the temp file is fully written and closed, or the write
\* raises and leaves it partial
RsWriteFinish ==
    /\ pc = "rs_writing"
    /\ \E written \in BOOLEAN :
          /\ tmpFile' = (IF written THEN CompleteFile(all_recorded_chunks) ELSE tmpFile)
          /\ pc' = (IF written THEN "rs_move" ELSE "rs_except")
          /\ rsError' = (IF written THEN rsError ELSE "write")
    /\ UNCHANGED << keep_recording, current_device_id, success, supVars, ghostVars, alsaVars, cfgVars,
                    callVars, i, all_recorded_chunks, finalFile, cancelPoint,
                    removeFailed >>

\* lines 302-304: shutil.move renames the temp file onto the final path (both
\* are in OUTPUT_DIR, so the move is one rename) and record_segment returns True
RsMoveOk ==
    /\ pc = "rs_move"
    /\ finalFile' = tmpFile
    /\ tmpFile' = NoFile
    /\ Return(TRUE)
    /\ UNCHANGED << keep_recording, current_device_id, supVars, ghostVars, alsaVars, cfgVars, callVars,
                    cancelPoint, rsError, removeFailed >>

\* line 302 raises: nothing was renamed, control goes to line 306
RsMoveError ==
    /\ pc = "rs_move"
    /\ rsError' = "move"
    /\ pc' = "rs_except"
    /\ UNCHANGED << keep_recording, current_device_id, success, supVars, ghostVars, alsaVars, cfgVars,
                    callVars, i, all_recorded_chunks, tmpFile, finalFile,
                    cancelPoint, removeFailed >>

\* the handler of lines 306-315 without the removal of the temp file
RsExceptNoCleanup ==
    /\ pc = "rs_except"
    /\ Return(FALSE)
    /\ UNCHANGED << keep_recording, current_device_id, supVars, ghostVars, alsaVars, cfgVars, callVars,
                    tmpFile, finalFile, cancelPoint, rsError, removeFailed >>

\* lines 306-315: the temp file, if it exists, is removed (os.remove may raise
\* OSError, which is logged), and record_segment returns False
RsExcept ==
    /\ pc = "rs_except"
    /\ \E removed \in BOOLEAN :
          /\ removed \/ tmpFile.exists
          /\ tmpFile' = (IF removed THEN NoFile ELSE tmpFile)
          /\ removeFailed' = (removeFailed \/ ~removed)
    /\ Return(FALSE)
    /\ UNCHANGED << keep_recording, current_device_id, supVars, ghostVars, alsaVars, cfgVars, callVars,
                    finalFile, cancelPoint, rsError >>

\* the steps of record_segment
RecordSegmentStep ==
    \/ RsEntry
    \/ RsLoop
    \/ RsRecOk
    \/ RsRecError
    \/ RsNoChunks
    \/ RsCombineOk
    \/ RsCombineError
    \/ RsWriteOpen
    \/ RsWriteFinish
    \/ RsMoveOk
    \/ RsMoveError
    \/ RsExcept

(* ---------------- record_audio ----------------------------------------- *)
\* a call of find_best_input_device from record_audio: the host answers the
\* two queries, the result is stored in current_device_id
Discover(pcIfNone, pcIfFound) ==
    \E query \in DeviceQueries(SupDeviceNames, MaxSupDevices), default \in DefaultQueries(MaxSupDevices) :
        LET found == find_best_input_device(query, preferred, default) IN
        /\ current_device_id' = found
        /\ pendingRediscovery' = FALSE
        /\ pc' = (IF found = None THEN pcIfNone ELSE pcIfFound)

\* lines 321-323: discovery on startup
Startup ==
    /\ pc = "start"
    /\ Discover("startup_sleep", "loop")
    /\ cameFrom' = "start"
    /\ UNCHANGED << keep_recording, success, supVars, guardChecks, discoveredInLoop, alsaVars, segVars,
                    cfgVars, callVars, cancelPoint >>

\* a sleep of record_audio that returns to the loop head
Sleep(at) ==
    /\ pc = at
    /\ pc' = "loop"
    /\ cameFrom' = at
    /\ UNCHANGED << keep_recording, current_device_id, success, supVars,
                    pendingRediscovery, guardChecks, discoveredInLoop, alsaVars, segVars,
                    cfgVars, callVars, cancelPoint >>

\* line 324: time.sleep(RETRY_DELAY_ON_FAILURE_SECONDS) on startup
StartupSleep == Sleep("startup_sleep")

\* a loop condition that ignores the flag
LoopConditionAlways == TRUE

\* line 328: while keep_recording
LoopCondition == keep_recording

\* the loop head without the test of line 329: an iteration goes on to the
\* disk check whether or not a device is selected
LoopHeadNoDeviceTest ==
    /\ pc = "loop"
    /\ pc' = (IF ~LoopCondition THEN "done" ELSE "admission")
    /\ cameFrom' = "none"
    /\ guardChecks' = 0
    /\ discoveredInLoop' = FALSE
    /\ UNCHANGED << keep_recording, current_device_id, success, supVars,
                    pendingRediscovery, alsaVars, segVars, cfgVars, callVars,
                    cancelPoint >>

\* lines 328-329: the loop test and the test for a missing device
LoopHead ==
    /\ pc = "loop"
    /\ pc' = (IF ~LoopCondition THEN "done"
              ELSE IF current_device_id = None THEN "discover"
              ELSE "admission")
    /\ cameFrom' = "none"
    /\ guardChecks' = 0
    /\ discoveredInLoop' = FALSE
    /\ UNCHANGED << keep_recording, current_device_id, success, supVars,
                    pendingRediscovery, alsaVars, segVars, cfgVars, callVars,
                    cancelPoint >>

\* discovery inside the loop without the continue of line 335: the
\* iteration goes on to the disk check with no device
DiscoverDeviceNoContinue ==
    /\ pc = "discover"
    /\ Discover("admission", "admission")
    /\ discoveredInLoop' = (current_device_id' # None)
    /\ UNCHANGED << keep_recording, success, supVars, cameFrom, guardChecks,
                    alsaVars, segVars, cfgVars, callVars, cancelPoint >>

\* lines 330-337: discovery inside the loop
DiscoverDevice ==
    /\ pc = "discover"
    /\ Discover("discover_sleep", "admission")
    /\ discoveredInLoop' = (current_device_id' # None)
    /\ UNCHANGED << keep_recording, success, supVars, cameFrom, guardChecks,
                    alsaVars, segVars, cfgVars, callVars, cancelPoint >>

\* line 334: time.sleep(RETRY_DELAY_ON_FAILURE_SECONDS); continue
DiscoverSleep == Sleep("discover_sleep")

\* the disk check without the continue of line 346: the segment is recorded
\* whatever the guard returned
AdmissionCheckNoContinue ==
    /\ pc = "admission"
    /\ tmpFile' = NoFile
    /\ finalFile' = NoFile
    /\ guardChecks' = guardChecks + 1
    /\ \E query \in DiskQueries :
          /\ guardResult' = check_disk_space_sufficient(query, segment_duration)
          /\ pc' = "rs_entry"
    /\ UNCHANGED << keep_recording, current_device_id, success, supVars,
                    pendingRediscovery, cameFrom, discoveredInLoop, alsaVars, cfgVars,
                    guardQuery, selQuery, selDefault, selResult,
                    i, all_recorded_chunks, cancelPoint, rsError, removeFailed >>

\* lines 339-346: a new output path (no file at it or at its temp path yet),
\* then the disk space guard
AdmissionCheck ==
    /\ pc = "admission"
    /\ tmpFile' = NoFile
    /\ finalFile' = NoFile
    /\ guardChecks' = guardChecks + 1
    /\ \E query \in DiskQueries :
          /\ guardResult' = check_disk_space_sufficient(query, segment_duration)
          /\ pc' = (IF check_disk_space_sufficient(query, segment_duration)
                    THEN "rs_entry" ELSE "disk_sleep")
    /\ UNCHANGED << keep_recording, current_device_id, success, supVars,
                    pendingRediscovery, cameFrom, discoveredInLoop, alsaVars, cfgVars,
                    guardQuery, selQuery, selDefault, selResult,
                    i, all_recorded_chunks, cancelPoint, rsError, removeFailed >>

\* the disk pause followed by a new device discovery
DiskSleepRediscovers ==
    /\ pc = "disk_sleep"
    /\ Discover("loop", "loop")
    /\ cameFrom' = "disk_sleep"
    /\ UNCHANGED << keep_recording, success, supVars, guardChecks, discoveredInLoop, alsaVars, segVars,
                    cfgVars, callVars, cancelPoint >>

\* line 345: time.sleep(DISK_CHECK_INTERVAL_SECONDS); continue
DiskSleep == Sleep("disk_sleep")

\* lines 350-358 without the reset of line 355
AfterSegmentNoReset ==
    /\ pc = "after_segment"
    /\ IF ~keep_recording
       THEN pc' = "done" /\ UNCHANGED << supVars, pendingRediscovery, cameFrom >>
       ELSE IF success
            THEN /\ UNCHANGED << supVars, pendingRediscovery >>
                 /\ cameFrom' = "after_segment"
                 /\ pc' = "loop"
            ELSE /\ consecutive_segment_failures' = consecutive_segment_failures + 1
                 /\ failRun' = (IF failRun < MaxRun THEN failRun + 1 ELSE MaxRun)
                 /\ pendingRediscovery' = TRUE
                 /\ UNCHANGED cameFrom
                 /\ pc' = "rediscover"
    /\ UNCHANGED << keep_recording, current_device_id, success, guardChecks, discoveredInLoop, alsaVars,
                    segVars, cfgVars, callVars, cancelPoint >>

\* lines 350-374 without the rediscovery of line 361: a failed segment goes
\* straight to the pause
AfterSegmentNoRediscovery ==
    /\ pc = "after_segment"
    /\ IF ~keep_recording
       THEN pc' = "done" /\ UNCHANGED << supVars, pendingRediscovery, cameFrom >>
       ELSE IF success
            THEN /\ consecutive_segment_failures' = 0
                 /\ failRun' = 0
                 /\ UNCHANGED pendingRediscovery
                 /\ cameFrom' = "after_segment"
                 /\ pc' = "loop"
            ELSE /\ consecutive_segment_failures' = consecutive_segment_failures + 1
                 /\ failRun' = (IF failRun < MaxRun THEN failRun + 1 ELSE MaxRun)
                 /\ pendingRediscovery' = TRUE
                 /\ UNCHANGED cameFrom
                 /\ pc' = (IF consecutive_segment_failures + 1
                                >= MAX_CONSECUTIVE_SEGMENT_FAILURES
                           THEN "long_sleep" ELSE "short_sleep")
    /\ UNCHANGED << keep_recording, current_device_id, success, guardChecks, discoveredInLoop, alsaVars,
                    segVars, cfgVars, callVars, cancelPoint >>

\* lines 350-358: the flag test after the segment, then the failure count
AfterSegment ==
    /\ pc = "after_segment"
    /\ IF ~keep_recording
       THEN pc' = "done" /\ UNCHANGED << supVars, pendingRediscovery, cameFrom >>
       ELSE IF success
            THEN /\ consecutive_segment_failures' = 0
                 /\ failRun' = 0
                 /\ UNCHANGED pendingRediscovery
                 /\ cameFrom' = "after_segment"
                 /\ pc' = "loop"
            ELSE /\ consecutive_segment_failures' = consecutive_segment_failures + 1
                 /\ failRun' = (IF failRun < MaxRun THEN failRun + 1 ELSE MaxRun)
                 /\ pendingRediscovery' = TRUE
                 /\ UNCHANGED cameFrom
                 /\ pc' = "rediscover"
    /\ UNCHANGED << keep_recording, current_device_id, success, guardChecks, discoveredInLoop, alsaVars,
                    segVars, cfgVars, callVars, cancelPoint >>

\* the threshold test of line 365 with > in place of >=
ThresholdReachedStrict == consecutive_segment_failures > MAX_CONSECUTIVE_SEGMENT_FAILURES

\* line 365: consecutive_segment_failures >= MAX_CONSECUTIVE_SEGMENT_FAILURES
ThresholdReached == consecutive_segment_failures >= MAX_CONSECUTIVE_SEGMENT_FAILURES

\* lines 360-374: rediscovery after a failed segment, then the choice of pause
Rediscover ==
    /\ pc = "rediscover"
    /\ Discover(IF ThresholdReached THEN "long_sleep" ELSE "short_sleep",
                IF ThresholdReached THEN "long_sleep" ELSE "short_sleep")
    /\ UNCHANGED << keep_recording, success, supVars, cameFrom, guardChecks, discoveredInLoop,
                    alsaVars, segVars, cfgVars, callVars, cancelPoint >>

\* the long pause without the reset of line 371
LongSleepNoReset ==
    /\ pc = "long_sleep"
    /\ pc' = "loop"
    /\ cameFrom' = "long_sleep"
    /\ UNCHANGED << keep_recording, current_device_id, success, supVars,
                    pendingRediscovery, guardChecks, discoveredInLoop, alsaVars, segVars,
                    cfgVars, callVars, cancelPoint >>

\* lines 370-371: the long pause, then consecutive_segment_failures = 0
LongSleep ==
    /\ pc = "long_sleep"
    /\ pc' = "loop"
    /\ cameFrom' = "long_sleep"
    /\ consecutive_segment_failures' = 0
    /\ UNCHANGED << keep_recording, current_device_id, success, failRun,
                    pendingRediscovery, guardChecks, discoveredInLoop, alsaVars, segVars,
                    cfgVars, callVars, cancelPoint >>

\* line 374: the short pause
ShortSleep == Sleep("short_sleep")

\* the steps of the main thread
MainStep ==
    \/ Startup
    \/ StartupSleep
    \/ LoopHead
    \/ DiscoverDevice
    \/ DiscoverSleep
    \/ AdmissionCheck
    \/ DiskSleep
    \/ RecordSegmentStep
    \/ AfterSegment
    \/ Rediscover
    \/ LongSleep
    \/ ShortSleep

Next == MainStep \/ signal_handler

\* the service: record_audio with signals arriving at any point
Spec == Init /\ [][Next]_vars

\* the service when every call of the main thread returns
FairSpec == Spec /\ WF_vars(MainStep)

(* ---------------- record_segment on its own ---------------------------- *)
\* a call record_segment(device, duration, path) with no file at the path,
\* for any device argument and any positive durations
InitSegment ==
    /\ InitCommon
    /\ pc = "rs_entry"
    /\ current_device_id \in {None, 0}
    /\ segment_duration \in 1..MaxDuration
    /\ chunk_duration \in 1..MaxChunkDuration
    /\ preferred = PREFERRED_DEVICE_NAME_SUBSTRING

NextSegment == RecordSegmentStep \/ signal_handler

SpecSegment == InitSegment /\ [][NextSegment]_vars

(* ---------------- the disk space guard on its own ---------------------- *)
InitGuard ==
    /\ InitCommon
    /\ pc = "guard_call"
    /\ current_device_id = None
    /\ segment_duration \in 1..MaxDuration
    /\ chunk_duration = 1
    /\ preferred = PREFERRED_DEVICE_NAME_SUBSTRING

\* a call of check_disk_space_sufficient, lines 87-104
GuardCall ==
    /\ pc = "guard_call"
    /\ \E query \in DiskQueries :
          /\ guardQuery' = query
          /\ guardResult' = check_disk_space_sufficient(query, segment_duration)
    /\ pc' = "guard_done"
    /\ UNCHANGED << keep_recording, current_device_id, success, supVars, ghostVars, alsaVars, segVars,
                    cfgVars, cancelPoint, selQuery, selDefault, selResult >>

NextGuard == GuardCall

SpecGuard == InitGuard /\ [][NextGuard]_vars

(* ---------------- the selector on its own ------------------------------ *)
InitSelect ==
    /\ InitCommon
    /\ pc = "select_call"
    /\ current_device_id \in {None, 0, MaxDevices - 1}
    /\ segment_duration = 1
    /\ chunk_duration = 1
    /\ preferred \in PreferredValues

\* a call of find_best_input_device, lines 158-210
SelectCall ==
    /\ pc = "select_call"
    /\ \E query \in DeviceQueries(DeviceNames, MaxDevices), default \in DefaultQueries(MaxDevices) :
          /\ selQuery' = query
          /\ selDefault' = default
          /\ selResult' = find_best_input_device(query, preferred, default)
          /\ current_device_id' = find_best_input_device(query, preferred, default)
    /\ pc' = "select_done"
    /\ UNCHANGED << keep_recording, success, supVars, ghostVars, alsaVars, segVars, cfgVars, cancelPoint,
                    guardQuery, guardResult >>

NextSelect == SelectCall

SpecSelect == InitSelect /\ [][NextSelect]_vars

(* ---------------- the arecord variant (mic_recorder_alsa.py) ------------ *)
\* everything the arecord variant does not have
micVars == << pc, current_device_id, supVars, ghostVars, segVars, cfgVars,
              callVars, cancelPoint >>

\* exit statuses of arecord: 0, an error, killed by SIGTERM
ReturnCodes == {0, 1, -15}

\* module load (lines 28-29), record_audio not yet entered
InitAlsa ==
    /\ InitCommon
    /\ pc = "start"
    /\ current_device_id = None
    /\ segment_duration = 1
    /\ chunk_duration = 1
    /\ preferred = PREFERRED_DEVICE_NAME_SUBSTRING

\* signal_handler, lines 32-40: keep_recording = False, and terminate() on the
\* subprocess if the global current_process is set; terminate() on a subprocess
\* that has already exited does nothing
alsa_signal_handler ==
    /\ apc # "a_done"
    /\ keep_recording' = FALSE
    /\ procAsked' = (procAsked \/ (current_process /\ procState = "running"))
    /\ UNCHANGED << micVars, success, apc, current_process, procState,
                    returncode, alsaSegments >>

\* lines 101-103: check_alsa_devices(); return if it is False
AlsaStart ==
    /\ apc = "a_start"
    /\ \E found \in BOOLEAN : apc' = (IF found THEN "a_loop" ELSE "a_done")
    /\ UNCHANGED << micVars, keep_recording, success, current_process,
                    procState, procAsked, returncode, alsaSegments >>

\* line 108: while keep_recording
AlsaLoopHead ==
    /\ apc = "a_loop"
    /\ keep_recording => alsaSegments < MaxAlsaSegments
    /\ apc' = (IF keep_recording THEN "a_popen" ELSE "a_done")
    /\ UNCHANGED << micVars, keep_recording, success, current_process,
                    procState, procAsked, returncode, alsaSegments >>

\* lines 109-77: record_segment is entered and subprocess.Popen(cmd) runs: it
\* starts arecord, or raises (line 89); its result is not yet assigned
AlsaPopen ==
    /\ apc = "a_popen"
    /\ \E spawned \in BOOLEAN :
          /\ procState' = (IF spawned THEN "running" ELSE "none")
          /\ alsaSegments' = alsaSegments + (IF spawned THEN 1 ELSE 0)
          /\ success' = (IF spawned THEN success ELSE FALSE)
          /\ apc' = (IF spawned THEN "a_assign" ELSE "a_finally")
    /\ procAsked' = FALSE
    /\ UNCHANGED << micVars, keep_recording, current_process, returncode >>

\* line 77: the assignment current_process = <the Popen object>
AlsaAssign ==
    /\ apc = "a_assign"
    /\ current_process' = TRUE
    /\ apc' = "a_wait"
    /\ UNCHANGED << micVars, keep_recording, success, procState, procAsked,
                    returncode, alsaSegments >>

\* lines 80-87: current_process.wait() returns once the subprocess has exited;
\* the result is returncode == 0
AlsaWait ==
    /\ apc = "a_wait"
    /\ procState = "exited"
    /\ success' = (returncode = 0)
    /\ apc' = "a_finally"
    /\ UNCHANGED << micVars, keep_recording, current_process, procState,
                    procAsked, returncode, alsaSegments >>

\* lines 92-93: finally: current_process = None
AlsaFinally ==
    /\ apc = "a_finally"
    /\ current_process' = FALSE
    /\ procState' = "none"
    /\ procAsked' = FALSE
    /\ returncode' = 0
    /\ apc' = "a_after"
    /\ UNCHANGED << micVars, keep_recording, success, alsaSegments >>

\* lines 116-123: break if the flag is cleared, sleep if the segment failed
AlsaAfterSegment ==
    /\ apc = "a_after"
    /\ apc' = (IF ~keep_recording THEN "a_done"
               ELSE IF success THEN "a_loop" ELSE "a_sleep")
    /\ UNCHANGED << micVars, keep_recording, success, current_process,
                    procState, procAsked, returncode, alsaSegments >>

\* line 123: time.sleep(5)
AlsaSleep ==
    /\ apc = "a_sleep"
    /\ apc' = "a_loop"
    /\ UNCHANGED << micVars, keep_recording, success, current_process,
                    procState, procAsked, returncode, alsaSegments >>

\* the arecord subprocess of line 77 exits: on its own after the duration of
\* line 73 (status 0 or an error), or killed by the terminate() of line 38
ArecordExits ==
    /\ procState = "running"
    /\ procState' = "exited"
    /\ \E rc \in ReturnCodes :
          /\ rc = -15 => procAsked
          /\ returncode' = rc
    /\ UNCHANGED << micVars, keep_recording, success, apc, current_process,
                    procAsked, alsaSegments >>

\* the steps of the main thread of the arecord variant
AlsaMainStep ==
    \/ AlsaStart
    \/ AlsaLoopHead
    \/ AlsaPopen
    \/ AlsaAssign
    \/ AlsaWait
    \/ AlsaFinally
    \/ AlsaAfterSegment
    \/ AlsaSleep

NextAlsa ==
    \/ AlsaMainStep
    \/ ArecordExits
    \/ alsa_signal_handler

SpecAlsa == InitAlsa /\ [][NextAlsa]_vars

(* ======================= properties ==================================== *)

\* the chunk record of chunk number j (1-based) of a segment of d seconds in
\* chunks of c seconds: full chunks, then the remainder
ExpectedChunk(j, d, c) ==
    [index |-> j - 1,
     seconds |-> IF j * c <= d THEN c ELSE d - (j - 1) * c]

\* chunks 1..k in capture order
FirstChunks(k, d, c) == [j \in 1..k |-> ExpectedChunk(j, d, c)]

\* ceil(d / c) for positive integers
CeilDiv(d, c) == (d + c - 1) \div c

RECURSIVE SumSeconds(_)
\* the total length of a sequence of chunks
SumSeconds(chunks) ==
    IF chunks = <<>> THEN 0
    ELSE chunks[1].seconds + SumSeconds(Tail(chunks))

\* chunk captures started in the current record_segment call
CapturesStarted == Len(all_recorded_chunks) + (IF pc = "rs_rec" THEN 1 ELSE 0)

\* C1: at every point of record_segment and for every outcome, the file at
\* output_path_final is absent or is the complete encoded segment, and it
\* changes only by the move of a completely written temp file.
C1_FinalWholeOrAbsent ==
    /\ [](finalFile.exists =>
            /\ finalFile.complete
            /\ finalFile.data # <<>>
            /\ pc = "after_segment" /\ success)
    /\ [](pc = "rs_move" => tmpFile = CompleteFile(all_recorded_chunks))
    /\ [][finalFile' # finalFile =>
            /\ pc = "rs_move"
            /\ tmpFile.complete
            /\ finalFile' = tmpFile
            /\ ~tmpFile'.exists]_vars

\* C1 witness: a segment of several chunks was finalized by the move
C1_Witness ==
    /\ pc = "after_segment"
    /\ success
    /\ finalFile.complete
    /\ Len(finalFile.data) >= 2
    /\ ~tmpFile.exists

C3_CancelFinalizesCaptured ==
    /\ (cancelPoint >= 0 /\ pc \in RsPcs \ {"rs_entry"}) =>
          CapturesStarted <= cancelPoint
    /\ (pc = "after_segment" /\ cancelPoint >= 1) =>
          /\ success
          /\ finalFile =
               CompleteFile(FirstChunks(cancelPoint, segment_duration, chunk_duration))
    /\ (pc = "after_segment" /\ cancelPoint = 0) =>
          (~success /\ ~finalFile.exists /\ ~tmpFile.exists)

\* C3 amended: as C3, except that for k >= 1 record_segment returns True
\* with the final file made of exactly chunks 1..k unless the capture of
\* chunk k or the encoding, write or move raised, in which case it returns
\* False and there is no final file.
C3_CancelFinalizesUnlessError ==
    /\ (cancelPoint >= 0 /\ pc \in RsPcs \ {"rs_entry"}) =>
          CapturesStarted <= cancelPoint
    /\ (pc = "after_segment" /\ cancelPoint >= 1) =>
          \/ /\ success
             /\ rsError = "none"
             /\ finalFile =
                  CompleteFile(FirstChunks(cancelPoint, segment_duration, chunk_duration))
          \/ /\ ~success
             /\ rsError # "none"
             /\ ~finalFile.exists
    /\ (pc = "after_segment" /\ cancelPoint = 0) =>
          (~success /\ ~finalFile.exists /\ ~tmpFile.exists)

\* C3 witness: the flag was cleared during chunk 2 of at least 3 and the
\* segment was finalized from chunks 1..2
C3_Witness ==
    /\ pc = "after_segment"
    /\ cancelPoint = 2
    /\ CeilDiv(segment_duration, chunk_duration) >= 3
    /\ success
    /\ Len(finalFile.data) = 2

\* positions at which a supervisor state other than SHUTDOWN is entered
EntryPcs == { "discover", "rediscover", "admission", "rs_entry",
              "startup_sleep", "discover_sleep", "disk_sleep",
              "short_sleep", "long_sleep" }

\* C4 as stated: once the flag is cleared, the supervisor begins no further
\* device discovery, disk check, segment or backoff sleep.
C4_NoStateEntryAfterCancel ==
    [][~keep_recording => (pc' \in EntryPcs => pc' = pc)]_vars

\* C5: once the flag is cleared the main loop eventually exits (every call
\* of the main thread returning); after the exit nothing more happens and
\* the flag is never set again.
C5_EventuallyExits ==
    /\ (~keep_recording) ~> (pc = "done")
    /\ [][/\ (~keep_recording => ~keep_recording')
          /\ (pc = "done" => pc' = "done" /\ finalFile' = finalFile)]_vars

\* C5 witness: the loop has exited with the flag cleared
C5_Witness == pc = "done" /\ ~keep_recording /\ cancelPoint >= 1

\* C6: in a run of consecutive failures the j-th failure is counted as
\* ((j - 1) mod T) + 1; a count below T is followed by the short pause, the
\* count T by the long pause, after which the count is 0 again.
C6_BackoffByThreshold ==
    LET T == MAX_CONSECUTIVE_SEGMENT_FAILURES IN
    failRun < MaxRun =>
        IF pc \in {"rediscover", "short_sleep", "long_sleep"}
        THEN /\ consecutive_segment_failures = ((failRun - 1) % T) + 1
             /\ (pc = "short_sleep" => failRun % T # 0)
             /\ (pc = "long_sleep" => failRun % T = 0)
        ELSE consecutive_segment_failures = failRun % T

\* C6 witness: the (T+1)-th failure of a run is counted as failure 1 and
\* followed by the short pause
C6_Witness ==
    /\ pc = "short_sleep"
    /\ failRun = MAX_CONSECUTIVE_SEGMENT_FAILURES + 1
    /\ consecutive_segment_failures = 1

\* C7: the main loop has exited only if the flag was cleared, and until
\* then the main thread always has a next step, whatever failed.
C7_OnlyCancelEndsLoop ==
    /\ pc = "done" => ~keep_recording
    /\ pc # "done" => ENABLED MainStep

\* C7 witness: after a write error and further failures the loop is running
C7_Witness ==
    /\ pc = "loop"
    /\ keep_recording
    /\ rsError = "write"
    /\ failRun >= 2
    /\ current_device_id = None

\* the bytes a segment needs: the estimate plus the margin
RequiredBytes(d) == EstimatedSegmentBytes(d) + MIN_FREE_DISK_SPACE_MB * MiB

\* C8 as stated: for a query that did not fail the guard returns False iff
\* free_space < estimated_segment_bytes + margin; for a failed query, True.
C8_GuardIffBelowRequired ==
    pc = "guard_done" =>
        IF guardQuery.ok
        THEN (guardResult = FALSE) <=> (guardQuery.free < RequiredBytes(segment_duration))
        ELSE guardResult = TRUE

\* C8 amended: for a query that did not fail the guard returns False iff
\* free_space is below estimated_segment_bytes + margin rounded up to a
\* whole MiB (the free space is truncated to whole MiB before the
\* comparison); for a failed query, True.
C8_GuardIffBelowRequiredMiB ==
    pc = "guard_done" =>
        IF guardQuery.ok
        THEN (guardResult = FALSE) <=>
               (guardQuery.free < CeilDiv(RequiredBytes(segment_duration), MiB) * MiB)
        ELSE guardResult = TRUE

\* C8 witness: the guard refused although the free bytes reach the estimate
\* plus the margin
C8_Witness ==
    /\ pc = "guard_done"
    /\ guardQuery.ok
    /\ guardResult = FALSE
    /\ guardQuery.free >= RequiredBytes(segment_duration)

\* C9: an uninterrupted, error-free record_segment has captured exactly
\* ceil(d / c) chunks when its loop ends: all of length c but the last,
\* which is the remainder (c for an exact multiple), summing to d.
C9_ChunkCountAndLengths ==
    (pc = "rs_combine" /\ keep_recording) =>
        LET n == CeilDiv(segment_duration, chunk_duration) IN
        /\ Len(all_recorded_chunks) = n
        /\ \A j \in 1..(n - 1) : all_recorded_chunks[j].seconds = chunk_duration
        /\ all_recorded_chunks[n].seconds =
             (IF segment_duration % chunk_duration = 0
              THEN chunk_duration ELSE segment_duration % chunk_duration)
        /\ \A j \in 1..n : all_recorded_chunks[j].index = j - 1
        /\ SumSeconds(all_recorded_chunks) = segment_duration

\* C9 witness: 12 s in chunks of 5 s gave chunks of 5 s, 5 s and 2 s
C9_Witness ==
    /\ pc = "rs_combine"
    /\ keep_recording
    /\ segment_duration = 12
    /\ chunk_duration = 5
    /\ [j \in 1..Len(all_recorded_chunks) |-> all_recorded_chunks[j].seconds]
         = <<5, 5, 2>>

\* the raw indices of the devices with input channels of a query
InputIds(query) ==
    IF ~query.ok THEN {}
    ELSE { k - 1 : k \in { m \in 1..Len(query.devices) :
                             query.devices[m].max_input_channels > 0 } }

\* C10: for a non-empty catalog the selector returns a device id (one of
\* the catalog or the default device's), whatever the preferred substring
\* and the default query; for an empty catalog it returns None and
\* current_device_id is None.
C10_SelectorTotal ==
    pc = "select_done" =>
        IF InputIds(selQuery) # {}
        THEN /\ selResult # None
             /\ selResult \in InputIds(selQuery) \cup {selDefault.index}
             /\ current_device_id = selResult
        ELSE selResult = None /\ current_device_id = None

\* C10 witness: a non-empty catalog, no preferred match, the default query
\* raised, and a device was returned
C10_Witness ==
    /\ pc = "select_done"
    /\ InputIds(selQuery) # {}
    /\ preferred = <<"z">>
    /\ ~selDefault.ok
    /\ selResult \in InputIds(selQuery)

\* the raw indices of the input devices of a query whose name contains the
\* substring, compared without regard to case
MatchingIds(query, sub) ==
    { id \in InputIds(query) :
        Contains(Lower(sub), Lower(query.devices[id + 1].name)) }

\* C11: when the preferred substring is non-empty and some catalog device's
\* name contains it case-insensitively, the selector returns the first such
\* device in catalog order, whatever the default device is.
C11_PreferredMatchWins ==
    (pc = "select_done" /\ preferred # <<>> /\ MatchingIds(selQuery, preferred) # {}) =>
        /\ selResult \in MatchingIds(selQuery, preferred)
        /\ \A id \in MatchingIds(selQuery, preferred) : selResult <= id
        /\ current_device_id = selResult

\* C11 witness: the match differs from the name in case, is not the first
\* catalog device, and a usable default device with another id exists
C11_Witness ==
    /\ pc = "select_done"
    /\ preferred = <<"H", "D">>
    /\ selResult = 2
    /\ InputIds(selQuery) = {0, 1, 2}
    /\ selDefault.ok
    /\ selDefault.index = 1
    /\ selDefault.max_input_channels = 2

\* C12: when the catalog is non-empty, nothing matches the preferred
\* substring (or it is empty) and the default input device has an input
\* channel, the selector returns the default device's id, first in the
\* catalog or not.
C12_DefaultWhenNoMatch ==
    (/\ pc = "select_done"
     /\ InputIds(selQuery) # {}
     /\ (preferred = <<>> \/ MatchingIds(selQuery, preferred) = {})
     /\ selDefault.ok
     /\ selDefault.max_input_channels >= 1) =>
        (selResult = selDefault.index /\ current_device_id = selDefault.index)

\* C12 witness: 3 devices, none matching, default id 1 with 2 input
\* channels: device 1 is returned
C12_Witness ==
    /\ pc = "select_done"
    /\ Len(selQuery.devices) = 3
    /\ InputIds(selQuery) = {0, 1, 2}
    /\ preferred = <<"z">>
    /\ selDefault.ok
    /\ selDefault.index = 1
    /\ selDefault.max_input_channels = 2
    /\ selResult = 1

\* C19: when the catalog is non-empty, nothing matches the preferred
\* substring and the default query raises or reports no input channel, the
\* selector returns the first device of the catalog.
C19_FirstWhenNoDefault ==
    (/\ pc = "select_done"
     /\ InputIds(selQuery) # {}
     /\ (preferred = <<>> \/ MatchingIds(selQuery, preferred) = {})
     /\ (~selDefault.ok \/ selDefault.max_input_channels = 0)) =>
        /\ selResult \in InputIds(selQuery)
        /\ \A id \in InputIds(selQuery) : selResult <= id
        /\ current_device_id = selResult

\* C19 witness: the default query returned a device without input channels,
\* the first raw device has none either, and the first catalog device (raw
\* index 1) was returned
C19_Witness ==
    /\ pc = "select_done"
    /\ InputIds(selQuery) = {1, 2}
    /\ preferred = <<"z">>
    /\ selDefault.ok
    /\ selDefault.index = 2
    /\ selDefault.max_input_channels = 0
    /\ selResult = 1

\* C18: a capture error on a chunk makes record_segment return False in
\* that very step: no later chunk is captured and the chunk is not retried
\* (the call is over), the chunks captured so far are dropped, and neither
\* the temp nor the final path is written.
C18_CaptureErrorAbortsSegment ==
    /\ [][(rsError' = "capture" /\ rsError # "capture") =>
            /\ pc = "rs_rec"
            /\ pc' = "after_segment"
            /\ ~success'
            /\ all_recorded_chunks' = <<>>
            /\ tmpFile' = tmpFile
            /\ finalFile' = finalFile]_vars
    /\ [](rsError = "capture" =>
            /\ pc = "after_segment"
            /\ ~success
            /\ ~tmpFile.exists
            /\ ~finalFile.exists)

\* C18 witness: the capture of chunk 2 failed (the flag was cleared while
\* it was in capture, with chunk 1 already captured) and record_segment
\* returned False with no file
C18_Witness ==
    /\ pc = "after_segment"
    /\ rsError = "capture"
    /\ cancelPoint = 2
    /\ ~success
    /\ ~tmpFile.exists
    /\ ~finalFile.exists

(* ---------------- the supervisor's transitions --------------------------- *)
\* a step of the main thread that leaves its position
Leaves(at) == pc = at /\ pc' # at

\* C13: every segment failure observed by the supervisor (record_segment
\* returned False and the flag is still set) adds exactly 1 to
\* consecutive_segment_failures and goes to a device discovery; the discovery
\* runs before anything else (no pause, disk check or segment is reached while it
\* is pending), whether or not a device is currently selected.
C13_FailureCountsAndRediscovers ==
    /\ [][(Leaves("after_segment") /\ keep_recording /\ ~success) =>
            /\ consecutive_segment_failures' = consecutive_segment_failures + 1
            /\ pendingRediscovery'
            /\ pc' = "rediscover"]_vars
    /\ [][Leaves("rediscover") =>
            /\ ~pendingRediscovery'
            /\ consecutive_segment_failures' = consecutive_segment_failures
            /\ pc' \in {"short_sleep", "long_sleep"}]_vars
    /\ [](pendingRediscovery => pc = "rediscover")

\* a failed segment was followed by a discovery that found the device again, and
\* the supervisor is in the pause before its next segment
C13_Witness ==
    /\ pc = "short_sleep"
    /\ ~pendingRediscovery
    /\ current_device_id = 0
    /\ consecutive_segment_failures = 2
    /\ keep_recording

\* C14: every segment success observed by the supervisor (record_segment
\* returned True and the flag is still set) sets consecutive_segment_failures to
\* 0, keeps current_device_id, and leads through the loop head straight to the
\* next disk check: no discovery and no pause in between.
C14_SuccessResetsAndContinues ==
    /\ [][(Leaves("after_segment") /\ keep_recording /\ success) =>
            /\ consecutive_segment_failures' = 0
            /\ current_device_id' = current_device_id
            /\ current_device_id # None
            /\ ~pendingRediscovery'
            /\ cameFrom' = "after_segment"
            /\ pc' = "loop"]_vars
    /\ [][(Leaves("loop") /\ cameFrom = "after_segment" /\ keep_recording) =>
            /\ consecutive_segment_failures' = 0
            /\ current_device_id' = current_device_id
            /\ pc' = "admission"]_vars
    /\ [](cameFrom = "after_segment" =>
            /\ pc = "loop"
            /\ consecutive_segment_failures = 0
            /\ current_device_id # None)

\* a segment has succeeded after earlier failures and the supervisor is back at
\* the loop head with the counter at 0 and the device kept
C14_Witness ==
    /\ pc = "loop"
    /\ cameFrom = "after_segment"
    /\ success
    /\ consecutive_segment_failures = 0
    /\ current_device_id = 0
    /\ finalFile.exists
    /\ keep_recording

\* C15: when the disk space guard returns False the supervisor starts no
\* segment and goes to the disk pause; the pause changes neither
\* current_device_id nor consecutive_segment_failures, and from the loop head
\* the supervisor (the flag still set) goes to the disk check again, with no
\* discovery.
C15_GuardFailurePausesAndKeepsDevice ==
    /\ [][(Leaves("admission") /\ ~guardResult') =>
            /\ pc' = "disk_sleep"
            /\ current_device_id' = current_device_id
            /\ consecutive_segment_failures' = consecutive_segment_failures]_vars
    /\ [][Leaves("disk_sleep") =>
            /\ pc' = "loop"
            /\ cameFrom' = "disk_sleep"
            /\ current_device_id' = current_device_id
            /\ consecutive_segment_failures' = consecutive_segment_failures]_vars
    /\ [][(Leaves("loop") /\ cameFrom = "disk_sleep" /\ keep_recording) =>
            /\ pc' = "admission"
            /\ current_device_id' = current_device_id
            /\ consecutive_segment_failures' = consecutive_segment_failures]_vars
    /\ [](pc = "disk_sleep" \/ cameFrom = "disk_sleep" =>
            /\ ~guardResult
            /\ current_device_id # None
            /\ ~tmpFile.exists
            /\ ~finalFile.exists)

\* the guard failed while failures were being counted; the pause is over and the
\* supervisor is at the loop head with the device and the counter it had
C15_Witness ==
    /\ pc = "loop"
    /\ cameFrom = "disk_sleep"
    /\ ~guardResult
    /\ current_device_id = 0
    /\ consecutive_segment_failures = 3
    /\ keep_recording

\* C16: record_segment is entered only from the disk check, by the step in
\* which the guard returned True, and that check is the only one of the
\* iteration; while the segment is being recorded no further check is made.
C16_OneGuardCheckBeforeSegment ==
    /\ [][(pc' = "rs_entry" /\ pc # "rs_entry") =>
            /\ pc = "admission"
            /\ guardResult'
            /\ guardChecks' = 1]_vars
    /\ [][(Leaves("admission") /\ ~guardResult') => pc' \notin RsPcs]_vars
    /\ [][(pc \in RsPcs) =>
            /\ guardResult' = guardResult
            /\ guardChecks' = guardChecks]_vars
    /\ [](pc \in RsPcs => guardResult /\ guardChecks = 1)

\* a segment is being captured, after the one check of its iteration passed
C16_Witness ==
    /\ pc = "rs_rec"
    /\ Len(all_recorded_chunks) >= 1
    /\ guardResult
    /\ guardChecks = 1

\* C17: when find_best_input_device returns None at startup (line 321) or at
\* the head of a loop iteration (line 331), the supervisor sleeps the retry
\* delay and returns to the loop head, from where (the flag still set, still no
\* device) it runs the discovery again; consecutive_segment_failures is not
\* changed by any of these steps.
C17_NoDeviceRetriesDiscovery ==
    /\ [][(Leaves("start") /\ current_device_id' = None) =>
            /\ pc' = "startup_sleep"
            /\ consecutive_segment_failures' = consecutive_segment_failures]_vars
    /\ [][(Leaves("discover") /\ current_device_id' = None) =>
            /\ pc' = "discover_sleep"
            /\ consecutive_segment_failures' = consecutive_segment_failures]_vars
    /\ [][(Leaves("startup_sleep") \/ Leaves("discover_sleep")) =>
            /\ pc' = "loop"
            /\ current_device_id' = None
            /\ consecutive_segment_failures' = consecutive_segment_failures]_vars
    /\ [][(Leaves("loop") /\ keep_recording /\ current_device_id = None) =>
            /\ pc' = "discover"
            /\ consecutive_segment_failures' = consecutive_segment_failures]_vars
    /\ [](pc \in {"startup_sleep", "discover_sleep"} => current_device_id = None)

\* a discovery inside the loop found nothing while failures were being counted;
\* the pause is over and the supervisor is at the loop head, about to retry
C17_Witness ==
    /\ pc = "loop"
    /\ cameFrom = "discover_sleep"
    /\ current_device_id = None
    /\ consecutive_segment_failures = 3
    /\ keep_recording

(* ---------------- the arecord variant and the signal --------------------- *)
\* C20 as stated: in the arecord variant, once a signal has cleared the flag,
\* record_segment never waits (line 80) for a running subprocess that
\* terminate() was not called on.
C20_NoWaitForUnaskedProcess ==
    ~(apc = "a_wait" /\ ~keep_recording /\ procState = "running" /\ ~procAsked)

(* ---------------- the supervisor's implicit invariants ------------------- *)
\* C21: consecutive_segment_failures is always between 0 and
\* MAX_CONSECUTIVE_SEGMENT_FAILURES; it is below the threshold whenever the
\* loop head, the discovery of line 331, the disk check or a segment is reached,
\* and holds the threshold only from the increment of line 358 to the reset of
\* line 371 (the rediscovery of line 361 and the long pause).
C21_FailuresWithinThreshold ==
    /\ consecutive_segment_failures \in 0..MAX_CONSECUTIVE_SEGMENT_FAILURES
    /\ (pc \in {"loop", "discover", "discover_sleep", "admission", "disk_sleep",
                "after_segment", "short_sleep"} \cup RsPcs) =>
           consecutive_segment_failures < MAX_CONSECUTIVE_SEGMENT_FAILURES
    /\ consecutive_segment_failures = MAX_CONSECUTIVE_SEGMENT_FAILURES =>
           pc \in {"rediscover", "long_sleep"}
    /\ pc = "long_sleep" =>
           consecutive_segment_failures = MAX_CONSECUTIVE_SEGMENT_FAILURES

\* the fifth failure in a row has been counted, the long pause is over and the
\* next iteration starts with the counter at 0
C21_Witness ==
    /\ pc = "loop"
    /\ cameFrom = "long_sleep"
    /\ failRun = MAX_CONSECUTIVE_SEGMENT_FAILURES
    /\ consecutive_segment_failures = 0
    /\ keep_recording

\* C22: the supervisor reaches the disk check, the disk pause and
\* record_segment only with a device selected: the disk check is entered from
\* the loop head or from the discovery of line 331 with current_device_id set,
\* the device is not cleared before record_segment is called, and the call
\* never takes the branch of lines 214-216 (it always goes on to the chunk loop).
C22_NoCheckOrSegmentWithoutDevice ==
    /\ [](pc \in ({"admission", "disk_sleep"} \cup RsPcs) => current_device_id # None)
    /\ [](pc = "discover" => current_device_id = None)
    /\ [][(pc' = "admission" /\ pc # "admission") =>
            /\ pc \in {"loop", "discover"}
            /\ current_device_id' # None]_vars
    /\ [][Leaves("rs_entry") => (pc' = "rs_loop" /\ rsError' = "none")]_vars

\* after a failed segment the rediscovery found nothing; the discovery at the
\* head of a later iteration found a device, the disk check passed, and
\* record_segment has gone past its device test
C22_Witness ==
    /\ pc = "rs_loop"
    /\ i = 0
    /\ discoveredInLoop
    /\ failRun >= 1
    /\ current_device_id = 0
    /\ guardChecks = 1

====
